---- MODULE Spec2Model ----
(***************************************************************************)
(* beancount-inquiry: the placeholder-contract resolver.                   *)
(*                                                                         *)
(* The repository holds two front ends over the same pipeline              *)
(*   "cli" : src/bean-inquiry.py            (argparse, key:value tokens)   *)
(*   "lit" : src/src/bean_inquiry/bean_inquiry.py (typer, one JSON/Python  *)
(*           literal given with --params)                                  *)
(* Both are modelled; `variant` says which one an invocation runs.         *)
(*                                                                         *)
(* Strings are sequences of one-character strings, so that the regular     *)
(* expressions, str.split and str.format are computed character by         *)
(* character the way the code computes them.                               *)
(***************************************************************************)
EXTENDS Integers, Sequences, FiniteSets, TLC

(***************************************************************************)
(* Bounds of the model.                                                    *)
(***************************************************************************)
\* placeholders in a template
MaxPlaceholders == 3
\* CLI tokens / elements of a list literal
MaxParams == 2
\* characters of a token handed to the classifier (SpecClassify)
MaxTokLen == 3

(***************************************************************************)
(* Characters.                                                             *)
(***************************************************************************)
Letter == {"a", "b", "c", "d", "s", "t", "x", "y", "z", "A", "C"}
Digit == {"0", "1", "2", "3", "4", "5", "6", "7", "8", "9"}
NL == "\n"

RECURSIVE Concat(_)
\* ''.join(ss)
Concat(ss) == IF ss = <<>> THEN <<>> ELSE Head(ss) \o Concat(Tail(ss))

Range(s) == {s[i] : i \in DOMAIN s}

\* the first index >= from at which s holds c, or 0
RECURSIVE IndexOf(_, _, _)
IndexOf(s, c, from) ==
    IF from > Len(s) THEN 0
    ELSE IF s[from] = c THEN from
    ELSE IndexOf(s, c, from + 1)

(***************************************************************************)
(* Placeholder classifier (src/bean-inquiry.py).                           *)
(***************************************************************************)
\* re.match anchors `$` at the end of the string or just before a newline
\* that ends it: the part of `s` that the pattern's body has to match.
BeforeDollar(s) ==
    IF Len(s) >= 1 /\ s[Len(s)] = NL THEN {s, SubSeq(s, 1, Len(s) - 1)} ELSE {s}

\* re.match(r'^[a-zA-Z_][a-zA-Z0-9_]*$', name)
valid_pyname(name) ==
    \E b \in BeforeDollar(name) :
        /\ Len(b) >= 1
        /\ b[1] \in Letter \cup {"_"}
        /\ \A i \in 2..Len(b) : b[i] \in Letter \cup Digit \cup {"_"}

\* re.match(r'^\d+$', num)
valid_int(num) ==
    \E b \in BeforeDollar(num) :
        /\ Len(b) >= 1
        /\ \A i \in 1..Len(b) : b[i] \in Digit

\* Placeholder.named / indexed / blank, or None ("invalid")
which_type(text) ==
    IF valid_pyname(text) THEN "named"
    ELSE IF valid_int(text) THEN "indexed"
    ELSE IF text = <<>> THEN "blank"
    ELSE "invalid"

(***************************************************************************)
(* Template scanner.                                                       *)
(***************************************************************************)
\* re.findall(r'\{([^}]*)\}', s): the inner text of each match, left to right
RECURSIVE findall(_, _)
findall(s, i) ==
    IF i > Len(s) THEN <<>>
    ELSE IF s[i] = "{"
         THEN LET j == IndexOf(s, "}", i + 1)
              IN  IF j = 0 THEN <<>>
                  ELSE <<SubSeq(s, i + 1, j - 1)>> \o findall(s, j + 1)
         ELSE findall(s, i + 1)

\* the elements of a sequence, each once, in order of first occurrence
RECURSIVE Dedup(_)
Dedup(s) ==
    IF s = <<>> THEN <<>>
    ELSE LET r == Dedup(SubSeq(s, 1, Len(s) - 1))
         IN  IF s[Len(s)] \in Range(r) THEN r ELSE Append(r, s[Len(s)])

get_placeholders_collapsing(query_string) ==
    LET matches == findall(query_string, 1)
        expected == which_type(matches[1])
    IN  IF matches = <<>> THEN [ok |-> TRUE, placeholders |-> <<>>, type |-> ""]
        ELSE IF expected = "invalid"
                \/ \E i \in DOMAIN matches : which_type(matches[i]) # expected
             THEN [ok |-> FALSE, placeholders |-> <<>>, type |-> ""]
             ELSE [ok |-> TRUE, placeholders |-> Dedup(matches), type |-> expected]

\* get_placeholders: None (ok = FALSE) or (placeholders, expected)
get_placeholders(query_string) ==
    LET matches == findall(query_string, 1)
        expected == which_type(matches[1])
    IN  IF matches = <<>> THEN [ok |-> TRUE, placeholders |-> <<>>, type |-> ""]
        ELSE IF expected = "invalid"
                \/ \E i \in DOMAIN matches : which_type(matches[i]) # expected
             THEN [ok |-> FALSE, placeholders |-> <<>>, type |-> ""]
             ELSE [ok |-> TRUE,
                   placeholders |-> IF expected # "blank" THEN Dedup(matches)
                                    ELSE matches,
                   type |-> expected]

(***************************************************************************)
(* Scanner of the literal variant (src/src/bean_inquiry/bean_inquiry.py).  *)
(***************************************************************************)
\* re.sub(r'\{[^}]+\}', '', s)
RECURSIVE sub_nonempty(_, _)
sub_nonempty(s, i) ==
    IF i > Len(s) THEN <<>>
    ELSE IF s[i] = "{"
         THEN LET j == IndexOf(s, "}", i + 1)
              IN  IF j = 0 THEN SubSeq(s, i, Len(s))
                  ELSE IF j = i + 1 THEN <<s[i]>> \o sub_nonempty(s, i + 1)
                  ELSE sub_nonempty(s, j + 1)
         ELSE <<s[i]>> \o sub_nonempty(s, i + 1)

\* s.count('{}'): non-overlapping occurrences
RECURSIVE count_blank(_, _)
count_blank(s, i) ==
    IF i >= Len(s) THEN 0
    ELSE IF s[i] = "{" /\ s[i + 1] = "}" THEN 1 + count_blank(s, i + 2)
    ELSE count_blank(s, i + 1)

DigitChars == <<"0", "1", "2", "3", "4", "5", "6", "7", "8", "9">>

\* str(i) for a natural number
RECURSIVE str(_)
str(i) == IF i < 10 THEN <<DigitChars[i + 1]>>
          ELSE str(i \div 10) \o <<DigitChars[(i % 10) + 1]>>

\* the set extract_required_params returns
extract_required_params(query_string) ==
    LET named_or_indexed == findall(query_string, 1)
        temp_string == sub_nonempty(query_string, 1)
        unnamed_count == count_blank(temp_string, 1)
    IN  {named_or_indexed[i] : i \in {k \in DOMAIN named_or_indexed :
                                          named_or_indexed[k] # <<>>}}
        \cup {str(i) : i \in 0..(unnamed_count - 1)}

\* a set as a list, in some order (the code only takes its length, tests
\* membership and sorts it for messages)
RECURSIVE SetToSeq(_)
SetToSeq(S) ==
    IF S = {} THEN <<>>
    ELSE LET x == CHOOSE e \in S : TRUE IN <<x>> \o SetToSeq(S \ {x})

(***************************************************************************)
(* Python values: None, str, list of str, dict str -> str, number.         *)
(***************************************************************************)
None == [t |-> "none", v |-> <<>>]
PyStr(s) == [t |-> "str", v |-> s]
PyList(l) == [t |-> "list", v |-> l]
PyDict(d) == [t |-> "dict", v |-> d]
PyNum(n) == [t |-> "num", v |-> n]

\* bool(x)
Truthy(x) ==
    CASE x.t = "none" -> FALSE
      [] x.t = "str"  -> x.v # <<>>
      [] x.t = "list" -> x.v # <<>>
      [] x.t = "dict" -> DOMAIN x.v # {}
      [] x.t = "num"  -> x.v # 0

EmptyDict == [k \in {} |-> <<>>]

\* d[k] = v
DictSet(d, k, v) == [x \in DOMAIN d \cup {k} |-> IF x = k THEN v ELSE d[x]]

(***************************************************************************)
(* Diagnostics: which rule failed and what the message names.              *)
(*   unrecognized : the parameter keys the message names as unknown        *)
(*   missing      : the placeholder names the message names as missing     *)
(*   needed       : the required placeholders the message lists            *)
(*   expected, actual : the counts the message gives (-1: not given)       *)
(***************************************************************************)
Err(kind, unrecognized, missing, needed, expected, actual) ==
    [kind |-> kind, unrecognized |-> unrecognized, missing |-> missing,
     needed |-> needed, expected |-> expected, actual |-> actual]

NoErr == Err("", {}, {}, {}, -1, -1)

(***************************************************************************)
(* Parameter materializer and validator of the CLI variant.                *)
(***************************************************************************)
split_last(p) ==
    LET C == {i \in DOMAIN p : p[i] = ":"}
        i == CHOOSE k \in C : \A m \in C : m <= k
    IN  IF C = {} THEN <<p>>
        ELSE <<SubSeq(p, 1, i - 1), SubSeq(p, i + 1, Len(p))>>

\* p.split(":", 1)
split(p) ==
    LET i == IndexOf(p, ":", 1)
    IN  IF i = 0 THEN <<p>>
        ELSE <<SubSeq(p, 1, i - 1), SubSeq(p, i + 1, Len(p))>>

RECURSIVE parse_named(_, _, _, _)
parse_named_unchecked(params, placeholders, i, params_dict) ==
    IF i > Len(params)
    THEN IF \A k \in DOMAIN placeholders : placeholders[k] \in DOMAIN params_dict
         THEN [value |-> PyDict(params_dict), err |-> NoErr]
         ELSE [value |-> None,
               err |-> Err("missing_keys", {}, {}, Range(placeholders), -1, -1)]
    ELSE LET item == split(params[i])
         IN  IF Len(item) # 2
             THEN [value |-> None, err |-> Err("separator", {}, {}, {}, -1, -1)]
             ELSE parse_named(params, placeholders, i + 1,
                              DictSet(params_dict, item[1], item[2]))

\* the loop of parse_params over the tokens from the i-th on, params_dict
\* holding the earlier ones; then the coverage test after the loop
parse_named(params, placeholders, i, params_dict) ==
    IF i > Len(params)
    THEN IF \A k \in DOMAIN placeholders : placeholders[k] \in DOMAIN params_dict
         THEN [value |-> PyDict(params_dict), err |-> NoErr]
         ELSE [value |-> None,
               err |-> Err("missing_keys", {}, {}, Range(placeholders), -1, -1)]
    ELSE LET item == split(params[i])
         IN  IF Len(item) # 2
             THEN [value |-> None, err |-> Err("separator", {}, {}, {}, -1, -1)]
             ELSE IF item[1] \notin Range(placeholders)
             THEN [value |-> None,
                   err |-> Err("unknown_key", {item[1]}, {}, Range(placeholders),
                               -1, -1)]
             ELSE parse_named(params, placeholders, i + 1,
                              DictSet(params_dict, item[1], item[2]))

\* parse_params of src/bean-inquiry.py: a list, a dict, or None with the
\* message printed
parse_params(params, placeholders, placeholders_type) ==
    IF params = <<>> /\ placeholders = <<>>
    THEN [value |-> PyList(<<>>), err |-> NoErr]
    ELSE IF (params = <<>> /\ placeholders # <<>>)
            \/ Len(params) # Len(placeholders)
    THEN [value |-> None,
          err |-> Err("count", {}, {}, Range(placeholders), Len(placeholders), -1)]
    ELSE IF placeholders_type = "named"
    THEN parse_named(params, placeholders, 1, EmptyDict)
    ELSE [value |-> PyList(params), err |-> NoErr]

(***************************************************************************)
(* Substitution: str.format with positional and keyword arguments.         *)
(* A replacement field is the text between "{" and the next "}"; "{{" and  *)
(* "}}" are escapes.  The field text is the field name (the templates of   *)
(* the model carry no conversion, format spec, attribute or item access).  *)
(*   numbering: "none", "auto" ({} seen) or "manual" ({0} seen)            *)
(***************************************************************************)
\* the decimal value of a string of digits
RECURSIVE int(_)
int(ds) ==
    IF ds = <<>> THEN 0
    ELSE 10 * int(SubSeq(ds, 1, Len(ds) - 1))
         + (CHOOSE d \in 0..9 : DigitChars[d + 1] = ds[Len(ds)])

Raise(exc) == [ok |-> FALSE, out |-> <<>>, exc |-> exc]

RECURSIVE format(_, _, _, _, _, _)
format(s, i, args, kwargs, numbering, auto) ==
    IF i > Len(s) THEN [ok |-> TRUE, out |-> <<>>, exc |-> ""]
    ELSE IF s[i] = "}"
    THEN IF i < Len(s) /\ s[i + 1] = "}"
         THEN LET r == format(s, i + 2, args, kwargs, numbering, auto)
              IN  IF r.ok THEN [r EXCEPT !.out = <<"}">> \o r.out] ELSE r
         ELSE Raise("ValueError")
    ELSE IF s[i] # "{"
    THEN LET r == format(s, i + 1, args, kwargs, numbering, auto)
         IN  IF r.ok THEN [r EXCEPT !.out = <<s[i]>> \o r.out] ELSE r
    ELSE IF i < Len(s) /\ s[i + 1] = "{"
    THEN LET r == format(s, i + 2, args, kwargs, numbering, auto)
         IN  IF r.ok THEN [r EXCEPT !.out = <<"{">> \o r.out] ELSE r
    ELSE LET j == IndexOf(s, "}", i + 1)
             field == SubSeq(s, i + 1, j - 1)
             isauto == field = <<>>
             isindex == field # <<>> /\ \A k \in DOMAIN field : field[k] \in Digit
             index == IF isauto THEN auto ELSE int(field)
         IN  IF j = 0 \/ "{" \in Range(field) THEN Raise("ValueError")
             ELSE IF \/ isauto /\ numbering = "manual"
                     \/ isindex /\ numbering = "auto"
             THEN Raise("ValueError")
             ELSE IF (isauto \/ isindex) /\ index >= Len(args)
             THEN Raise("IndexError")
             ELSE IF ~isauto /\ ~isindex /\ field \notin DOMAIN kwargs
             THEN Raise("KeyError")
             ELSE LET val == IF isauto \/ isindex THEN args[index + 1]
                             ELSE kwargs[field]
                      r == format(s, j + 1, args, kwargs,
                                  IF isauto THEN "auto"
                                  ELSE IF isindex THEN "manual" ELSE numbering,
                                  IF isauto THEN auto + 1 ELSE auto)
                  IN  IF r.ok THEN [r EXCEPT !.out = val \o r.out] ELSE r

\* query_string.format(...) as both front ends call it on the parsed value
format_query(query_string, parsed_params) ==
    CASE parsed_params.t = "str" ->
             format(query_string, 1, <<parsed_params.v>>, EmptyDict, "none", 0)
      [] parsed_params.t = "list" ->
             format(query_string, 1, parsed_params.v, EmptyDict, "none", 0)
      [] parsed_params.t = "dict" ->
             format(query_string, 1, <<>>, parsed_params.v, "none", 0)
      [] OTHER -> [ok |-> TRUE, out |-> query_string, exc |-> ""]

(***************************************************************************)
(* Parameter parsing and validation of the literal variant.                *)
(*   raw.src = "empty"   : no --params given (the default "")              *)
(*   raw.src = "invalid" : neither json.loads nor ast.literal_eval accept  *)
(*   raw.src = "literal" : the text denotes raw.value (JSON null is None)  *)
(***************************************************************************)
parse_params_literal(raw) ==
    IF raw.src = "empty" THEN PyStr(<<>>)
    ELSE IF raw.src = "invalid" THEN None
    ELSE raw.value

\* "Validate parameters against required ones": the error raised, or NoErr.
\* required_params is a list, so `required_params - set(...)` raises
\* TypeError as soon as a dict reaches it.
validate(required_params, parsed_params) ==
    IF required_params # <<>>
    THEN IF ~Truthy(parsed_params)
         THEN Err("none_given", {}, {}, {}, -1, -1)
         ELSE IF parsed_params.t = "dict"
         THEN Err("TypeError", {}, {}, {}, -1, -1)
         ELSE IF parsed_params.t = "list"
                 /\ Len(parsed_params.v) < Len(required_params)
         THEN Err("count", {}, {}, {}, Len(required_params), Len(parsed_params.v))
         ELSE IF parsed_params.t = "str" /\ Len(required_params) > 1
         THEN Err("single_string", {}, {}, Range(required_params), -1, -1)
         ELSE NoErr
    ELSE NoErr

(***************************************************************************)
(* Inputs of an invocation.                                                *)
(***************************************************************************)
TemplateTokens == {<<>>, <<"0">>, <<"1">>, <<"a">>, <<"b">>, <<"1", "a">>}

SeqsUpTo(Elems, n) == UNION {[1..k -> Elems] : k \in 0..n}

\* the query string with placeholders phs: bare, or with literal text
\* before each placeholder and at the end
Template(phs, lit) ==
    Concat([i \in DOMAIN phs |->
               (IF lit THEN <<"s", " ">> ELSE <<>>) \o <<"{">> \o phs[i] \o <<"}">>])
    \o (IF lit THEN <<" ", "t">> ELSE <<>>)

CliTokens == {<<"a", ":", "x">>, <<"b", ":", "A", ":", "C">>,
              <<"c", ":", "z">>, <<"d", ":", "y">>, <<"x">>}

DictKeys == {<<"a">>, <<"b">>, <<"c">>}
DictValue(k) == IF k = <<"a">> THEN <<"x">>
                ELSE IF k = <<"b">> THEN <<"A", ":", "C">> ELSE <<"z">>

LiteralValues ==
    {None, PyStr(<<>>), PyStr(<<"x">>), PyNum(0), PyNum(5)}
    \cup {PyList(l) : l \in SeqsUpTo({<<"x">>, <<"y">>}, MaxParams)}
    \cup {PyDict([k \in K |-> DictValue(k)]) : K \in SUBSET DictKeys}

RawLiterals ==
    {[src |-> "empty", value |-> None], [src |-> "invalid", value |-> None]}
    \cup {[src |-> "literal", value |-> v] : v \in LiteralValues}

ClassifierAlphabet == {"a", "1", "_", "-", " ", NL}

(***************************************************************************)
(* State of one invocation.                                                *)
(***************************************************************************)
VARIABLES
    variant,            \* "cli" or "lit"
    phs, lit,           \* what the template was built from
    template,           \* the query string of the ledger's query directive
    params,             \* cli: the tokens; lit: the raw --params literal
    check,              \* --check
    pc,                 \* position in main / bean_inquiry
    query_string,       \* the local query_string
    placeholders,       \* placeholders / required_params (inner texts)
    placeholders_type,  \* cli only
    parsed_params,
    failed,             \* the step that failed: "", scan, materialize,
                        \* validate, substitute, execute
    err,                \* what was reported
    status,             \* exit status, -1 while running
    executed,           \* the query strings handed to the query executor
    text, ptype         \* the classifier's argument and result

vars == <<variant, phs, lit, template, params, check, pc, query_string,
          placeholders, placeholders_type, parsed_params, failed, err, status,
          executed, text, ptype>>

inputs == <<variant, phs, lit, template, params, check>>
classifier == <<text, ptype>>

Init ==
    /\ variant \in {"cli", "lit"}
    /\ phs \in SeqsUpTo(TemplateTokens, MaxPlaceholders)
    /\ lit \in BOOLEAN
    /\ template = Template(phs, lit)
    /\ params \in IF variant = "cli" THEN SeqsUpTo(CliTokens, MaxParams)
                  ELSE RawLiterals
    /\ check \in BOOLEAN
    /\ pc = "start"
    /\ query_string = template
    /\ placeholders = <<>>
    /\ placeholders_type = ""
    /\ parsed_params = None
    /\ failed = ""
    /\ err = NoErr
    /\ status = -1
    /\ executed = <<>>
    /\ text = <<>>
    /\ ptype = ""

\* sys.exit(message) / sys.exit(1) / raise typer.Exit(code=1) / an uncaught
\* exception after step `step` failed
Fail(step, e) ==
    /\ failed' = step
    /\ err' = e
    /\ status' = 1
    /\ pc' = "exit"

(***************************************************************************)
(* src/bean-inquiry.py: main                                               *)
(***************************************************************************)
\* "Extract and display placeholders", with the --check exit
MainGetPlaceholders ==
    /\ variant = "cli" /\ pc = "start"
    /\ LET r == get_placeholders(query_string)
       IN  IF ~r.ok
           THEN /\ Fail("scan", Err("style", {}, {}, {}, -1, -1))
                /\ UNCHANGED <<placeholders, placeholders_type>>
           ELSE /\ placeholders' = r.placeholders
                /\ placeholders_type' = r.type
                /\ IF check
                   THEN status' = 0 /\ pc' = "exit"
                   ELSE status' = status /\ pc' = "scanned"
                /\ UNCHANGED <<failed, err>>
    /\ UNCHANGED <<inputs, query_string, parsed_params, executed, classifier>>

\* "Parse parameters"
MainParseParams ==
    /\ variant = "cli" /\ pc = "scanned"
    /\ LET r == parse_params(params, placeholders, placeholders_type)
       IN  IF r.value = None
           THEN /\ Fail(IF r.err.kind = "separator" THEN "materialize"
                        ELSE "validate", r.err)
                /\ UNCHANGED parsed_params
           ELSE /\ parsed_params' = r.value
                /\ pc' = "validated"
                /\ UNCHANGED <<failed, err, status>>
    /\ UNCHANGED <<inputs, query_string, placeholders, placeholders_type,
                   executed, classifier>>

MainFormat_NoExit ==
    /\ variant = "cli" /\ pc = "validated"
    /\ IF Truthy(parsed_params)
       THEN LET r == format_query(query_string, parsed_params)
            IN  IF r.ok
                THEN /\ query_string' = r.out
                     /\ UNCHANGED <<failed, err>>
                ELSE /\ failed' = "substitute"
                     /\ err' = Err(r.exc, {}, {}, {}, -1, -1)
                     /\ UNCHANGED query_string
       ELSE UNCHANGED <<query_string, failed, err>>
    /\ pc' = "formatted"
    /\ UNCHANGED <<inputs, placeholders, placeholders_type, parsed_params,
                   status, executed, classifier>>

\* "Format query with parameters"
MainFormat ==
    /\ variant = "cli" /\ pc = "validated"
    /\ IF Truthy(parsed_params)
       THEN LET r == format_query(query_string, parsed_params)
            IN  IF r.ok
                THEN /\ query_string' = r.out
                     /\ pc' = "formatted"
                     /\ UNCHANGED <<failed, err, status>>
                ELSE /\ Fail("substitute", Err(r.exc, {}, {}, {}, -1, -1))
                     /\ UNCHANGED query_string
       ELSE /\ pc' = "formatted"
            /\ UNCHANGED <<query_string, failed, err, status>>
    /\ UNCHANGED <<inputs, placeholders, placeholders_type, parsed_params,
                   executed, classifier>>

\* "Execute query": bean-query may be absent, and may exit non-zero
MainExecute ==
    /\ variant = "cli" /\ pc = "formatted"
    /\ \E installed \in BOOLEAN, ran \in BOOLEAN :
          IF ~installed
          THEN /\ Fail("execute", Err("not_installed", {}, {}, {}, -1, -1))
               /\ UNCHANGED executed
          ELSE /\ executed' = Append(executed, query_string)
               /\ IF ran
                  THEN /\ status' = 0 /\ pc' = "exit"
                       /\ UNCHANGED <<failed, err>>
                  ELSE Fail("execute", Err("CalledProcessError", {}, {}, {}, -1, -1))
    /\ UNCHANGED <<inputs, query_string, placeholders, placeholders_type,
                   parsed_params, classifier>>

(***************************************************************************)
(* src/src/bean_inquiry/bean_inquiry.py: bean_inquiry                      *)
(***************************************************************************)
\* "Extract and display required parameters", with the --check exit
InquiryExtract ==
    /\ variant = "lit" /\ pc = "start"
    /\ placeholders' = SetToSeq(extract_required_params(query_string))
    /\ IF check
       THEN status' = 0 /\ pc' = "exit"
       ELSE status' = status /\ pc' = "scanned"
    /\ UNCHANGED <<inputs, query_string, placeholders_type, parsed_params,
                   failed, err, executed, classifier>>

\* "Parse parameters"
InquiryParseParams ==
    /\ variant = "lit" /\ pc = "scanned"
    /\ LET v == parse_params_literal(params)
       IN  IF v = None
           THEN /\ Fail("materialize", Err("parse", {}, {}, {}, -1, -1))
                /\ UNCHANGED parsed_params
           ELSE /\ parsed_params' = v
                /\ pc' = "parsed"
                /\ UNCHANGED <<failed, err, status>>
    /\ UNCHANGED <<inputs, query_string, placeholders, placeholders_type,
                   executed, classifier>>

\* "Validate parameters against required ones"
InquiryValidate ==
    /\ variant = "lit" /\ pc = "parsed"
    /\ LET e == validate(placeholders, parsed_params)
       IN  IF e # NoErr
           THEN Fail("validate", e)
           ELSE /\ pc' = "validated"
                /\ UNCHANGED <<failed, err, status>>
    /\ UNCHANGED <<inputs, query_string, placeholders, placeholders_type,
                   parsed_params, executed, classifier>>

\* "Format query with parameters"
InquiryFormat ==
    /\ variant = "lit" /\ pc = "validated"
    /\ IF Truthy(parsed_params)
       THEN LET r == format_query(query_string, parsed_params)
            IN  IF r.ok
                THEN /\ query_string' = r.out
                     /\ pc' = "formatted"
                     /\ UNCHANGED <<failed, err, status>>
                ELSE /\ Fail("substitute", Err(r.exc, {}, {}, {}, -1, -1))
                     /\ UNCHANGED query_string
       ELSE /\ pc' = "formatted"
            /\ UNCHANGED <<query_string, failed, err, status>>
    /\ UNCHANGED <<inputs, placeholders, placeholders_type, parsed_params,
                   executed, classifier>>

\* "Execute query" and "Render results": either may fail
InquiryExecute ==
    /\ variant = "lit" /\ pc = "formatted"
    /\ executed' = Append(executed, query_string)
    /\ \E ran \in BOOLEAN :
          IF ran
          THEN /\ status' = 0 /\ pc' = "exit"
               /\ UNCHANGED <<failed, err>>
          ELSE Fail("execute", Err("query", {}, {}, {}, -1, -1))
    /\ UNCHANGED <<inputs, query_string, placeholders, placeholders_type,
                   parsed_params, classifier>>

Next ==
    \/ MainGetPlaceholders
    \/ MainParseParams
    \/ MainFormat
    \/ MainExecute
    \/ InquiryExtract
    \/ InquiryParseParams
    \/ InquiryValidate
    \/ InquiryFormat
    \/ InquiryExecute

Spec == Init /\ [][Next]_vars

(***************************************************************************)
(* The classifier on its own: which_type applied to any token.             *)
(***************************************************************************)
InitClassify ==
    /\ variant = "cli"
    /\ phs = <<>>
    /\ lit = FALSE
    /\ template = <<>>
    /\ params = <<>>
    /\ check = FALSE
    /\ pc = "classify"
    /\ query_string = <<>>
    /\ placeholders = <<>>
    /\ placeholders_type = ""
    /\ parsed_params = None
    /\ failed = ""
    /\ err = NoErr
    /\ status = -1
    /\ executed = <<>>
    /\ text \in SeqsUpTo(ClassifierAlphabet, MaxTokLen)
    /\ ptype = "unset"

Classify ==
    /\ pc = "classify" /\ ptype = "unset"
    /\ ptype' = which_type(text)
    /\ UNCHANGED <<inputs, pc, query_string, placeholders, placeholders_type,
                   parsed_params, failed, err, status, executed, text>>

NextClassify == Classify

SpecClassify == InitClassify /\ [][NextClassify]_vars

(***************************************************************************)
(* Vocabulary of the properties, stated on the inputs of the invocation.   *)
(***************************************************************************)
\* some occurrence classifies differently from the first one
StyleConflict ==
    /\ phs # <<>>
    /\ \E i \in DOMAIN phs : which_type(phs[i]) # which_type(phs[1])

\* every occurrence classifies to style st
SingleStyle(st) ==
    /\ phs # <<>>
    /\ \A i \in DOMAIN phs : which_type(phs[i]) = st

\* required slots: distinct tokens, or occurrences for the blank style
RequiredSlots ==
    IF SingleStyle("blank") THEN Len(phs) ELSE Cardinality(Range(phs))

\* the scan is over / validation is over (it passed or the run ended)
Scanned == pc # "start" /\ pc # "classify"
Decided == Scanned /\ ~check /\ pc \notin {"scanned", "parsed"}
ValidationPassed ==
    Decided /\ failed \notin {"scan", "materialize", "validate"}

HasColon(p) == ":" \in Range(p)

\* the key and value of a key:value token: the token is key, ":", value
\* and the key holds no ":"
ClaimKey(p) ==
    CHOOSE k \in {SubSeq(p, 1, n) : n \in 0..Len(p)} :
        /\ ":" \notin Range(k)
        /\ Len(k) < Len(p)
        /\ p[Len(k) + 1] = ":"

ClaimValue(p) == SubSeq(p, Len(ClaimKey(p)) + 2, Len(p))

\* the parameters are a mapping (key:value tokens, or a dict literal)
MappingSupplied ==
    IF variant = "cli"
    THEN params # <<>> /\ \A i \in DOMAIN params : HasColon(params[i])
    ELSE params.src = "literal" /\ params.value.t = "dict"

SuppliedKeys ==
    IF variant = "cli" THEN {ClaimKey(params[i]) : i \in DOMAIN params}
    ELSE DOMAIN params.value.v

\* the value the mapping gives key k (the last token wins)
SuppliedValue(k) ==
    IF variant = "cli"
    THEN LET I == {i \in DOMAIN params : ClaimKey(params[i]) = k}
         IN  ClaimValue(params[CHOOSE i \in I : \A j \in I : j <= i])
    ELSE params.value.v[k]

MissingNames == Range(phs) \ SuppliedKeys
ExtraKeys == SuppliedKeys \ Range(phs)

\* the parameters are a positional sequence, and its length
SequenceSupplied ==
    IF variant = "cli" THEN TRUE
    ELSE params.src = "literal" /\ params.value.t = "list"

SuppliedLength ==
    IF variant = "cli" THEN Len(params) ELSE Len(params.value.v)

NonEmptyInput ==
    IF variant = "cli" THEN params # <<>> ELSE params.src # "empty"

\* the template with each named placeholder replaced by its mapped value
NamedSubstituted ==
    Concat([i \in DOMAIN phs |->
               (IF lit THEN <<"s", " ">> ELSE <<>>) \o SuppliedValue(phs[i])])
    \o (IF lit THEN <<" ", "t">> ELSE <<>>)

CoreSteps == {"scan", "materialize", "validate", "substitute"}

\* some placeholders replaced, others left in place
PartiallySubstituted(q) == q # template /\ "{" \in Range(q)

(***************************************************************************)
(* C1  A template in which some placeholder classifies to another style    *)
(* than the first one is rejected by the scan with a style-conflict error  *)
(* and the invocation fails; it is never accepted.                         *)
(***************************************************************************)
C1_StyleConflictRejected ==
    (StyleConflict /\ Scanned) =>
        (failed = "scan" /\ err.kind = "style" /\ status = 1)

(***************************************************************************)
(* C2  For an Indexed or Blank template and a positional sequence,         *)
(* validation succeeds only if the sequence has exactly as many elements   *)
(* as there are required slots: a surplus is never accepted.               *)
(***************************************************************************)
C2_ExactCount ==
    ((SingleStyle("indexed") \/ SingleStyle("blank"))
       /\ SequenceSupplied /\ ValidationPassed)
        => SuppliedLength = RequiredSlots

FirstExtraKey ==
    LET I == {i \in DOMAIN params : ClaimKey(params[i]) \notin Range(phs)}
    IN  ClaimKey(params[CHOOSE i \in I : \A j \in I : i <= j])

C4_NoPlaceholdersIgnoresParams ==
    (phs = <<>> /\ NonEmptyInput /\ Decided)
        => /\ failed \notin {"validate", "substitute"}
           /\ query_string = template

(***************************************************************************)
(* C5  For a Named template and a mapping whose keys are exactly the       *)
(* discovered names, validation succeeds and substitution yields the       *)
(* template with each placeholder replaced by its value, the other text    *)
(* unchanged.                                                              *)
(***************************************************************************)
C5_NamedRoundTrip ==
    (SingleStyle("named") /\ MappingSupplied /\ Decided
       /\ SuppliedKeys = Range(phs)
       /\ (variant = "cli" => Len(params) = Cardinality(SuppliedKeys)))
        => /\ failed \notin CoreSteps
           /\ pc \in {"formatted", "exit"} => query_string = NamedSubstituted

(***************************************************************************)
(* C6  Once scanning and validation have succeeded, substitution never     *)
(* fails, whatever the style (a template holding only {1} included).       *)
(***************************************************************************)
C6_SubstitutionNeverFails ==
    ((SingleStyle("named") \/ SingleStyle("indexed") \/ SingleStyle("blank"))
       /\ ValidationPassed)
        => failed # "substitute"

(***************************************************************************)
(* C7  If the scan, materialize, validate or substitute step fails, the    *)
(* invocation ends with a non-zero status and the query executor is not    *)
(* invoked; the executor is invoked at most once, only when none of the    *)
(* four steps failed, with the query string the substitution step left,    *)
(* which is never a partially substituted template.                        *)
(***************************************************************************)
C7_FailureNeverExecutes ==
    /\ failed \in CoreSteps => (status >= 1 /\ pc = "exit" /\ executed = <<>>)
    /\ executed # <<>> =>
          /\ Len(executed) = 1
          /\ ~check /\ pc = "exit"
          /\ failed \in {"", "execute"}
          /\ executed[1] = query_string
          /\ ~PartiallySubstituted(executed[1])

C7_Witness ==
    /\ failed = "substitute" /\ status = 1 /\ pc = "exit" /\ executed = <<>>

ClaimedType(tok) ==
    IF /\ tok # <<>>
       /\ tok[1] \in Letter \cup {"_"}
       /\ \A i \in 2..Len(tok) : tok[i] \in Letter \cup Digit \cup {"_"}
    THEN "named"
    ELSE IF tok # <<>> /\ \A i \in DOMAIN tok : tok[i] \in Digit
    THEN "indexed"
    ELSE IF tok = <<>> THEN "blank"
    ELSE "invalid"

(***************************************************************************)
(* C9  classify returns Named iff the token is a letter or underscore      *)
(* followed only by letters, digits or underscores; Indexed iff it is one  *)
(* or more decimal digits; Blank iff it is empty; Invalid otherwise.       *)
(***************************************************************************)
C9_ClassifyExact == ptype # "unset" /\ pc = "classify" => ptype = ClaimedType(text)

EarlierTokensAccepted ==
    LET I == {i \in DOMAIN params : ~HasColon(params[i])}
        n == CHOOSE i \in I : \A j \in I : i <= j
    IN  \A i \in 1..(n - 1) : ClaimKey(params[i]) \in Range(phs)

C11_RawTemplateNeverExecuted ==
    (phs # <<>> /\ ~check /\ executed # <<>>)
        => \A i \in DOMAIN executed :
              /\ executed[i] # template
              /\ "{" \notin Range(executed[i])

====
